---- MODULE Spec2Model ----
(***************************************************************************)
(* Quartz Code music player (src/code.py): the QuartzPlayer controller as  *)
(* a state machine.  One action per Tk callback (button, key binding,      *)
(* seek slider, key release in the search entry), one for a change of the  *)
(* search entry's text and one for the 250 ms _update_loop timer.  The     *)
(* volume slider (set_volume), which touches no field of the controller,   *)
(* has no action.  Next is the disjunction of all of them; the narrower    *)
(* specifications further down each name the handlers they leave out.      *)
(*                                                                         *)
(* Conventions                                                             *)
(*  - strings are sequences of one-character strings, so that basename,    *)
(*    lower(), strip() and the substring test are computed, not tabulated; *)
(*  - Python indices are kept 0-based (idx, listbox rows); Py(s, i) reads  *)
(*    element i of a sequence the way s[i] does in Python;                 *)
(*  - None is the empty tuple and a present value v is <<v>>;              *)
(*  - times are integers in milliseconds (the code uses float seconds);    *)
(*  - every handler is a function from a state record to a state record,   *)
(*    named after the method it models, so that handlers can call each     *)
(*    other the way the methods do.  The record field "calls" is the trace *)
(*    of outward calls (to pygame.mixer.music and messagebox) and of an    *)
(*    uncaught exception made by the handler;                              *)
(*  - mixer_up is the environment: while it is FALSE the control calls of  *)
(*    pygame.mixer.music (stop, pause, unpause, play) raise pygame.error.  *)
(*    pygame.mixer.init() has succeeded before any handler runs (line 39   *)
(*    of the source), so the calls return in every specification but       *)
(*    SpecFaulty, which lets mixer_up change;                              *)
(*  - assigned tells whether self.idx has ever held an index;             *)
(*  - last, pre and calls are history variables.  Recording every step     *)
(*    would multiply the state space by the number of ways into a state,   *)
(*    so a behaviour records at most one step, its final one: every        *)
(*    handler step from every reachable state is taken twice, once         *)
(*    unrecorded (the run goes on) and once recorded (the run ends in a    *)
(*    state that shows the handler, its input, the state it found, the     *)
(*    calls it made and the state it left).  A state predicate over the    *)
(*    recorded states is thereby a statement about every reachable step.   *)
(***************************************************************************)
EXTENDS Integers, Sequences, FiniteSets, TLC

VARIABLES
    playlist,      \* self.playlist: list of paths
    listbox,       \* rows of self.listbox: displayed base names
    sel,           \* self.listbox.curselection(): None or <<row>>
    query,         \* self.search_var: text of the search entry
    idx,           \* self.idx: None or <<i>>
    playing,       \* self.playing
    paused,        \* self.paused
    length,        \* self.length, in ms (0 = unknown)
    shuffle,       \* self.shuffle
    repeat,        \* self.repeat: "off" / "all" / "one"
    manual,        \* self._manual_seek_pos: None or <<ms>>
    curr_lbl,      \* text of self.curr_lbl as <<minutes, seconds>>
    file,          \* content of PLAYLIST_FILE on disk
    mixer_up,      \* pygame.mixer.music accepts stop/pause/unpause/play
    timer,         \* an after(250, self._update_loop) callback is pending
    assigned,      \* history: self.idx has held an index at some time
    calls,         \* recorded step: the outward calls the handler made
    last,          \* recorded step: the handler and its input
    pre            \* recorded step: what the handler found on entry

vars == <<playlist, listbox, sel, query, idx, playing, paused, length,
          shuffle, repeat, manual, curr_lbl, file, mixer_up, timer, assigned,
          calls, last, pre>>

(***************************************************************************)
(* Bounds of the model.                                                    *)
(***************************************************************************)
MaxPlaylist == 2      \* longest playlist explored
MaxOverrun  == 1      \* how far past len(playlist) repeated next may push idx

(***************************************************************************)
(* Optional values.                                                        *)
(***************************************************************************)
None == <<>>
Some(v) == <<v>>
Val(o) == o[1]

Py(s, i) == s[i + 1]

(***************************************************************************)
(* The files the user can pick.  Two of them share a base name; the third  *)
(* has an upper-case name and a duration the probe cannot resolve.         *)
(***************************************************************************)
PathA  == <<"m", "/", "a">>
PathA2 == <<"n", "/", "a">>
PathB  == <<"m", "/", "B">>
Paths  == {PathA, PathA2, PathB}

\* get_length_fallback(path) in ms; 0 when neither mutagen nor pygame can tell
get_length_fallback(p) ==
    IF p = PathA THEN 2000
    ELSE IF p = PathA2 THEN 4000
    ELSE 0

\* what the search entry can hold
Queries == {<<>>, <<" ", "B">>}

\* slider values (percent) the user can drag to
SeekVals == {50, 100}

\* what pygame.mixer.music.get_pos() can return, in ms (-1: not playing)
TransportPos == {-1, 1700, 3700}

RepeatModes == {"off", "all", "one"}

\* the 0.4 s guard of _update_loop, in ms
Guard == 400

(***************************************************************************)
(* String helpers.                                                         *)
(***************************************************************************)
\* str.lower() on one character
LowerChar(c) ==
    IF c = "A" THEN "a" ELSE IF c = "B" THEN "b" ELSE c

lower(s) == [i \in 1..Len(s) |-> LowerChar(s[i])]

\* str.strip()
RECURSIVE strip(_)
strip(s) ==
    IF s = <<>> THEN s
    ELSE IF Head(s) = " " THEN strip(Tail(s))
    ELSE IF s[Len(s)] = " " THEN strip(SubSeq(s, 1, Len(s) - 1))
    ELSE s

\* os.path.basename(p): what follows the last "/"
basename(p) ==
    LET slashes == {i \in 1..Len(p) : p[i] = "/"}
        cut == IF slashes = {} THEN 0
               ELSE CHOOSE i \in slashes : \A j \in slashes : j <= i
    IN SubSeq(p, cut + 1, Len(p))

\* q in name
Contains(q, name) ==
    \E i \in 1..(Len(name) + 1) :
        /\ i + Len(q) - 1 <= Len(name)
        /\ SubSeq(name, i, i + Len(q) - 1) = q

\* format_time(sec) for sec >= 0 given in ms: int(sec), then mm:ss
format_time(ms) ==
    LET s == ms \div 1000 IN <<s \div 60, s % 60>>

\* one outward call
Call(f, a) == [f |-> f, a |-> a]

Log(s, f, a) == [s EXCEPT !.calls = Append(@, Call(f, a))]

\* the handler has raised: the exception is the last entry of its trace
Raised(s) == \E c \in {s.calls} : c # <<>> /\ c[Len(c)].f = "raise"

\* a control call f(a) on pygame.mixer.music: it returns, or raises
\* pygame.error
music(s, f, a) ==
    IF s.mixer_up THEN Log(s, f, a)
    ELSE Log(Log(s, f, a), "raise", <<"P">>)

(***************************************************************************)
(* Playlist panel.                                                         *)
(***************************************************************************)
\* _filter_playlist; listbox.delete(0, END) also drops the selection
filter_playlist(s) ==
    LET q == lower(strip(s.query))
        keep == SelectSeq(s.playlist,
                    LAMBDA p : q = <<>> \/ Contains(q, lower(basename(p))))
    IN [s EXCEPT !.listbox = [i \in 1..Len(keep) |-> basename(keep[i])],
                 !.sel = None]

\* _highlight_current
highlight_current(s) ==
    LET s1 == filter_playlist(s) IN
    IF s1.idx = None THEN s1
    ELSE LET base == basename(Py(s1.playlist, Val(s1.idx)))
             rows == {i \in 0..(Len(s1.listbox) - 1) : Py(s1.listbox, i) = base}
         IN IF rows = {} THEN s1
            ELSE [s1 EXCEPT !.sel =
                     Some(CHOOSE i \in rows : \A j \in rows : i <= j)]

\* stop_song without "self.paused = False"
stop_song_keeps_paused(s) ==
    LET s1 == music(s, "stop", <<>>) IN
    IF Raised(s1) THEN s1
    ELSE [s1 EXCEPT !.playing = FALSE, !.curr_lbl = <<0, 0>>]

\* stop_song
stop_song(s) ==
    LET s1 == music(s, "stop", <<>>) IN
    IF Raised(s1) THEN s1
    ELSE [s1 EXCEPT !.playing = FALSE,
                    !.paused = FALSE,
                    !.curr_lbl = <<0, 0>>]

\* _add_paths: the loop, then the idx fix-up
RECURSIVE add_loop(_, _)
add_loop(s, paths) ==
    IF paths = <<>> THEN s
    ELSE LET p == Head(paths)
             present == \E i \in 1..Len(s.playlist) : s.playlist[i] = p
         IN IF p # <<>> /\ ~present
            THEN add_loop([s EXCEPT !.playlist = Append(@, p),
                                    !.listbox = Append(@, basename(p))],
                          Tail(paths))
            ELSE add_loop(s, Tail(paths))

add_paths(s, paths) ==
    LET s1 == add_loop(s, paths)
        added == Len(s1.playlist) > Len(s.playlist)
    IN IF added /\ s1.idx = None THEN [s1 EXCEPT !.idx = Some(0)] ELSE s1

\* list.pop(i) / listbox.delete(i)
Pop(q, i) == SubSeq(q, 1, i) \o SubSeq(q, i + 2, Len(q))

\* idx_after_remove without "self.idx = None"
idx_after_remove_keeps(s, i) ==
    IF s.idx = Some(i)
    THEN stop_song(s)
    ELSE IF s.idx # None /\ i < Val(s.idx)
    THEN [s EXCEPT !.idx = Some(Val(@) - 1)]
    ELSE s

\* the idx fix-up of remove_selected, after row i went
idx_after_remove(s, i) ==
    IF s.idx = Some(i)
    THEN LET s1 == stop_song(s)
         IN IF Raised(s1) THEN s1 ELSE [s1 EXCEPT !.idx = None]
    ELSE IF s.idx # None /\ i < Val(s.idx)
    THEN [s EXCEPT !.idx = Some(Val(@) - 1)]
    ELSE s

\* remove_selected; Tk drops a deleted row from the selection
remove_selected(s) ==
    IF s.sel = None THEN s
    ELSE LET i == Val(s.sel)
         IN idx_after_remove([s EXCEPT !.listbox = Pop(@, i),
                                       !.playlist = Pop(@, i),
                                       !.sel = None], i)

\* clear_playlist
clear_playlist(s) ==
    stop_song([s EXCEPT !.listbox = <<>>, !.sel = None,
                        !.playlist = <<>>, !.idx = None])

(***************************************************************************)
(* Playback.  ok: whether pygame.mixer.music.load accepts the file;        *)
(* rnd: what random.randrange returns.                                     *)
(***************************************************************************)
\* _load_track(idx): <<returned flag, state>>
load_track(s, i, ok) ==
    IF i = None \/ Val(i) < 0 \/ Val(i) >= Len(s.playlist)
    THEN <<FALSE, s>>
    ELSE LET path == Py(s.playlist, Val(i))
             s1 == Log(s, "load", path)
         IN IF ~ok
            THEN <<FALSE, Log(s1, "showerror", <<"L">>)>>
            ELSE <<TRUE, [s1 EXCEPT !.length = get_length_fallback(path)]>>

\* start_playback
start_playback(s, ok) ==
    IF s.idx = None THEN s
    ELSE LET r == load_track(s, s.idx, ok)
         IN IF ~r[1] THEN r[2]
            ELSE LET s1 == music(r[2], "play", <<0>>)
                 IN IF Raised(s1) THEN s1
                    ELSE highlight_current([s1 EXCEPT !.playing = TRUE,
                                                      !.paused = FALSE])

\* play_selected
play_selected(s, ok) ==
    IF s.sel # None
    THEN LET name == Py(s.listbox, Val(s.sel))
             hits == {i \in 0..(Len(s.playlist) - 1) :
                          basename(Py(s.playlist, i)) = name}
         IN IF hits = {} THEN start_playback(s, ok)
            ELSE start_playback(
                     [s EXCEPT !.idx =
                          Some(CHOOSE i \in hits : \A j \in hits : i <= j)],
                     ok)
    ELSE IF s.idx = None /\ s.playlist # <<>>
    THEN start_playback([s EXCEPT !.idx = Some(0)], ok)
    ELSE start_playback(s, ok)

\* play_pause without the "if not self.playing" branch
play_pause_toggles(s, ok) ==
    IF s.playlist = <<>> THEN s
    ELSE IF s.paused
    THEN LET s1 == music(s, "unpause", <<>>)
         IN IF Raised(s1) THEN s1 ELSE [s1 EXCEPT !.paused = FALSE]
    ELSE LET s1 == music(s, "pause", <<>>)
         IN IF Raised(s1) THEN s1 ELSE [s1 EXCEPT !.paused = TRUE]

\* play_pause
play_pause(s, ok) ==
    IF s.playlist = <<>> THEN s
    ELSE IF ~s.playing
    THEN start_playback(
             IF s.idx = None THEN [s EXCEPT !.idx = Some(0)] ELSE s, ok)
    ELSE IF s.paused
    THEN LET s1 == music(s, "unpause", <<>>)
         IN IF Raised(s1) THEN s1 ELSE [s1 EXCEPT !.paused = FALSE]
    ELSE LET s1 == music(s, "pause", <<>>)
         IN IF Raised(s1) THEN s1 ELSE [s1 EXCEPT !.paused = TRUE]

\* next_at_end that never wraps
next_at_end_stops(s, ok) == stop_song(s)

\* next_at_end that wraps whatever the repeat mode
next_at_end_wraps(s, ok) == start_playback([s EXCEPT !.idx = Some(0)], ok)

\* the branch of next_song taken past the last index
next_at_end(s, ok) ==
    IF s.repeat = "all"
    THEN start_playback([s EXCEPT !.idx = Some(0)], ok)
    ELSE stop_song(s)

\* next_song without "if not self.playlist: return"
next_song_unguarded(s, rnd, ok) ==
    IF s.shuffle
    THEN start_playback([s EXCEPT !.idx = Some(rnd)], ok)
    ELSE IF s.idx = None
    THEN start_playback([s EXCEPT !.idx = Some(0)], ok)
    ELSE LET s1 == [s EXCEPT !.idx = Some(Val(@) + 1)]
         IN IF Val(s1.idx) >= Len(s1.playlist)
            THEN next_at_end(s1, ok)
            ELSE start_playback(s1, ok)

\* next_song
next_song(s, rnd, ok) ==
    IF s.playlist = <<>> THEN s
    ELSE IF s.shuffle
    THEN start_playback([s EXCEPT !.idx = Some(rnd)], ok)
    ELSE IF s.idx = None
    THEN start_playback([s EXCEPT !.idx = Some(0)], ok)
    ELSE LET s1 == [s EXCEPT !.idx = Some(Val(@) + 1)]
         IN IF Val(s1.idx) >= Len(s1.playlist)
            THEN next_at_end(s1, ok)
            ELSE start_playback(s1, ok)

\* prev_index without the clamp max(0, ...)
prev_index_unclamped(s) ==
    IF s.repeat = "all"
    THEN Some((Val(s.idx) - 1) % Len(s.playlist))
    ELSE Some((IF s.idx = None THEN 0 ELSE Val(s.idx)) - 1)

\* the index prev_song computes; None - 1 raises TypeError
prev_index(s) ==
    IF s.repeat = "all"
    THEN Some((Val(s.idx) - 1) % Len(s.playlist))
    ELSE LET cur == IF s.idx = None \/ s.idx = Some(0) THEN 0 ELSE Val(s.idx)
         IN Some(IF cur - 1 > 0 THEN cur - 1 ELSE 0)

\* prev_song
prev_song(s, ok) ==
    IF s.playlist = <<>> THEN s
    ELSE IF s.repeat = "all" /\ s.idx = None
    THEN Log(s, "raise", <<"T">>)
    ELSE start_playback([s EXCEPT !.idx = prev_index(s)], ok)

\* _on_seek(val)
on_seek(s, val) ==
    IF ~s.playing THEN s
    ELSE IF s.idx = None \/ Val(s.idx) >= Len(s.playlist) THEN s
    ELSE LET path == Py(s.playlist, Val(s.idx))
             len == IF s.length > 0 THEN s.length
                    ELSE get_length_fallback(path)
             sec == IF len > 0 THEN (val * len) \div 100 ELSE val * 1000
             new_len == get_length_fallback(path)
             s1 == IF s.mixer_up THEN Log(s, "play", <<sec>>)
                   ELSE Log(Log(s, "play", <<sec>>), "pass", <<>>)
         IN [s1 EXCEPT
                 !.length = IF new_len > 0 THEN new_len ELSE @,
                 !.curr_lbl = format_time(sec),
                 !.manual = Some(sec)]

\* toggle_shuffle
toggle_shuffle(s) == [s EXCEPT !.shuffle = ~@]

\* cycle_repeat
cycle_repeat(s) ==
    [s EXCEPT !.repeat = IF @ = "off" THEN "all"
                         ELSE IF @ = "all" THEN "one" ELSE "off"]

\* the test of _update_loop for "track ended"
at_end(len, pos) == len # 0 /\ pos >= len - Guard

\* on_track_end without the repeat == "one" branch
on_track_end_advances(s, rnd, ok) == next_song(s, rnd, ok)

\* what _update_loop does at the end of a track
on_track_end(s, rnd, ok) ==
    IF s.repeat = "one" THEN music(s, "play", <<0>>)
    ELSE next_song(s, rnd, ok)

\* the last line of _update_loop, which an exception skips
reschedule(s) == [s EXCEPT !.timer = ~Raised(s)]

\* _update_loop that drops the pending seek position instead of using it
update_loop_feed(s, tpos, rnd, ok) ==
    IF ~(s.playing /\ ~s.paused) THEN reschedule(s)
    ELSE LET pos == IF tpos < 0 THEN 0 ELSE tpos
             s1 == [s EXCEPT !.manual = None]
         IN IF at_end(s1.length, pos)
            THEN reschedule(on_track_end(s1, rnd, ok))
            ELSE reschedule([s1 EXCEPT !.curr_lbl = format_time(pos)])

\* _update_loop; tpos is what get_pos() returns on this tick
update_loop(s, tpos, rnd, ok) ==
    IF ~(s.playing /\ ~s.paused) THEN reschedule(s)
    ELSE LET raw == IF s.manual # None THEN Val(s.manual) ELSE tpos
             pos == IF raw < 0 THEN 0 ELSE raw
             s1 == [s EXCEPT !.manual = None]
         IN IF at_end(s1.length, pos)
            THEN reschedule(on_track_end(s1, rnd, ok))
            ELSE reschedule([s1 EXCEPT !.curr_lbl = format_time(pos)])

(***************************************************************************)
(* The playlist file.  kind: "missing" or "text"; data: the characters of  *)
(* the file.  json_dump writes what json.dump(list, f, indent=2) writes    *)
(* for a list of strings over printable ASCII; json_load reads the JSON    *)
(* texts the model's files can hold: an array of strings (escapes \", \\   *)
(* and \/), a number written in digits, and text that is not JSON.         *)
(***************************************************************************)
FileOf(kind, data) == [kind |-> kind, data |-> data]

\* the escaping of json.dump that leaves every character as it is
json_escape_raw(p) == p

\* the escaping json.dump applies inside a string
RECURSIVE json_escape(_)
json_escape(p) ==
    IF p = <<>> THEN <<>>
    ELSE (IF Head(p) \in {"\"", "\\"} THEN <<"\\", Head(p)>> ELSE <<Head(p)>>)
         \o json_escape(Tail(p))

json_string(p) == <<"\"">> \o json_escape(p) \o <<"\"">>

\* the items of a non-empty array, each on its own line, indented by two
RECURSIVE json_items(_, _)
json_items(list, i) ==
    IF i > Len(list) THEN <<>>
    ELSE (IF i > 1 THEN <<",">> ELSE <<>>)
         \o <<"\n", " ", " ">> \o json_string(list[i])
         \o json_items(list, i + 1)

\* json.dump(list, f, indent=2)
json_dump(list) ==
    IF list = <<>> THEN <<"[", "]">>
    ELSE <<"[">> \o json_items(list, 1) \o <<"\n", "]">>

Digits == {"0", "1", "2", "3", "4", "5", "6", "7", "8", "9"}

JsonFail == [kind |-> "invalid", val |-> <<>>]

\* the first position from i on that holds no white space
RECURSIVE skip_ws(_, _)
skip_ws(t, i) ==
    IF i <= Len(t) /\ t[i] \in {" ", "\n"} THEN skip_ws(t, i + 1) ELSE i

\* the first position from i on that holds no digit
RECURSIVE skip_digits(_, _)
skip_digits(t, i) ==
    IF i <= Len(t) /\ t[i] \in Digits THEN skip_digits(t, i + 1) ELSE i

\* the string whose opening quote is before position i:
\* [ok, val, next], next being the position after the closing quote
RECURSIVE scan_string(_, _, _)
scan_string(t, i, acc) ==
    IF i > Len(t) THEN [ok |-> FALSE, val |-> acc, next |-> i]
    ELSE IF t[i] = "\"" THEN [ok |-> TRUE, val |-> acc, next |-> i + 1]
    ELSE IF t[i] = "\n" THEN [ok |-> FALSE, val |-> acc, next |-> i]
    ELSE IF t[i] = "\\"
    THEN IF i + 1 <= Len(t) /\ t[i + 1] \in {"\"", "\\", "/"}
         THEN scan_string(t, i + 2, Append(acc, t[i + 1]))
         ELSE [ok |-> FALSE, val |-> acc, next |-> i]
    ELSE scan_string(t, i + 1, Append(acc, t[i]))

\* the rest of an array from position i on, an item being due there
RECURSIVE scan_items(_, _, _)
scan_items(t, i, acc) ==
    LET k == skip_ws(t, i) IN
    IF k > Len(t) \/ t[k] # "\"" THEN JsonFail
    ELSE LET r == scan_string(t, k + 1, <<>>)
             m == skip_ws(t, r.next)
         IN IF ~r.ok \/ m > Len(t) THEN JsonFail
            ELSE IF t[m] = ","
            THEN scan_items(t, m + 1, Append(acc, r.val))
            ELSE IF t[m] = "]" /\ skip_ws(t, m + 1) > Len(t)
            THEN [kind |-> "array", val |-> Append(acc, r.val)]
            ELSE JsonFail

\* json.load(f)
json_load(t) ==
    LET k == skip_ws(t, 1) IN
    IF k > Len(t) THEN JsonFail
    ELSE IF t[k] = "["
    THEN LET m == skip_ws(t, k + 1)
         IN IF m <= Len(t) /\ t[m] = "]"
            THEN IF skip_ws(t, m + 1) > Len(t)
                 THEN [kind |-> "array", val |-> <<>>]
                 ELSE JsonFail
            ELSE scan_items(t, k + 1, <<>>)
    ELSE LET d == skip_digits(t, k)
         IN IF /\ d > k
               /\ (t[k] = "0" => d = k + 1)
               /\ skip_ws(t, d) > Len(t)
            THEN [kind |-> "scalar", val |-> <<>>]
            ELSE JsonFail

\* save_playlist; how: "ok", "open" (open fails: the file is untouched),
\* "write" (open has truncated the file and the write fails)
save_playlist(s, how) ==
    IF how = "ok"
    THEN Log([s EXCEPT !.file = FileOf("text", json_dump(s.playlist))],
             "showinfo", <<"S">>)
    ELSE IF how = "open"
    THEN Log(s, "showerror", <<"E">>)
    ELSE Log([s EXCEPT !.file = FileOf("text", <<>>)], "showerror", <<"E">>)

\* load_playlist
load_playlist(s) ==
    IF s.file.kind = "missing" THEN Log(s, "showwarning", <<"N">>)
    ELSE LET data == json_load(s.file.data) IN
         IF data.kind = "invalid" THEN Log(s, "showerror", <<"E">>)
         ELSE LET s1 == clear_playlist(s)
              IN IF Raised(s1) \/ data.kind = "scalar"
                 THEN Log(s1, "showerror", <<"E">>)
                 ELSE Log(add_paths(s1, data.val), "showinfo", <<"L">>)

(***************************************************************************)
(* The state machine.                                                      *)
(***************************************************************************)
Cur ==
    [playlist |-> playlist, listbox |-> listbox, sel |-> sel, query |-> query,
     idx |-> idx, playing |-> playing, paused |-> paused, length |-> length,
     shuffle |-> shuffle, repeat |-> repeat, manual |-> manual,
     curr_lbl |-> curr_lbl, file |-> file, mixer_up |-> mixer_up,
     timer |-> timer, calls |-> <<>>]

\* what a recorded step keeps of the state the handler found
Snapshot ==
    [playlist |-> playlist, listbox |-> listbox, query |-> query,
     idx |-> idx, sel |-> sel, playing |-> playing, paused |-> paused,
     length |-> length, manual |-> manual]

NoSnapshot ==
    [playlist |-> <<>>, listbox |-> <<>>, query |-> <<>>, idx |-> None,
     sel |-> None, playing |-> FALSE, paused |-> FALSE, length |-> 0,
     manual |-> None]

Op(name, arg) == [op |-> name, arg |-> arg]

NoOp == Op("none", <<>>)

\* the step from the current state to s; rec: whether it is recorded.
\* The handler's result is bound once, as r.
Step(op, s, rec) ==
    \E r \in {s} :
        /\ playlist' = r.playlist
        /\ listbox' = r.listbox
        /\ sel' = r.sel
        /\ query' = r.query
        /\ idx' = r.idx
        /\ playing' = r.playing
        /\ paused' = r.paused
        /\ length' = r.length
        /\ shuffle' = r.shuffle
        /\ repeat' = r.repeat
        /\ manual' = r.manual
        /\ curr_lbl' = r.curr_lbl
        /\ file' = r.file
        /\ mixer_up' = r.mixer_up
        /\ timer' = r.timer
        /\ assigned' = (assigned \/ r.idx # None)
        /\ last' = IF rec THEN op ELSE NoOp
        /\ pre' = IF rec THEN Snapshot ELSE NoSnapshot
        /\ calls' = IF rec THEN r.calls ELSE <<>>

\* a handler step: unrecorded, or recorded as the last step of the run
Do(op, s) ==
    /\ last = NoOp
    /\ \E rec \in BOOLEAN : Step(op, s, rec)

\* the state __init__ leaves, as a record
Fresh ==
    [playlist |-> <<>>, listbox |-> <<>>, sel |-> None, query |-> <<>>,
     idx |-> None, playing |-> FALSE, paused |-> FALSE, length |-> 0,
     shuffle |-> FALSE, repeat |-> "off", manual |-> None,
     curr_lbl |-> <<0, 0>>, file |-> FileOf("missing", <<>>),
     mixer_up |-> TRUE, timer |-> TRUE, calls |-> <<>>]

\* the program is in state s and no step is recorded
StartIn(s) ==
    /\ playlist = s.playlist
    /\ listbox = s.listbox
    /\ sel = s.sel
    /\ query = s.query
    /\ idx = s.idx
    /\ playing = s.playing
    /\ paused = s.paused
    /\ length = s.length
    /\ shuffle = s.shuffle
    /\ repeat = s.repeat
    /\ manual = s.manual
    /\ curr_lbl = s.curr_lbl
    /\ file = s.file
    /\ mixer_up = s.mixer_up
    /\ timer = s.timer
    /\ assigned = (s.idx # None)
    /\ calls = <<>>
    /\ last = NoOp
    /\ pre = NoSnapshot

\* __init__
Init == StartIn(Fresh)

\* lists a file dialog or a folder walk can hand to _add_paths: each file
\* alone, two files at once, and a list that names a file twice
Batches ==
    {<<p>> : p \in Paths} \cup {<<PathA, PathA2>>, <<PathB, PathA, PathB>>}

\* what another program can leave in the playlist file
FileContents ==
    {FileOf("text", <<"x">>), FileOf("text", <<"5">>),
     FileOf("text", json_dump(<<PathB, <<>>, PathB, PathA>>))}

\* may next_song still move idx without leaving the explored range
InRange ==
    IF idx = None THEN TRUE ELSE Val(idx) < Len(playlist) + MaxOverrun

\* values random.randrange(len(self.playlist)) can return; it is not called
\* on an empty playlist, where the value stands for nothing
Rnd == IF playlist = <<>> THEN {0} ELSE 0..(Len(playlist) - 1)

AddFiles(paths) ==
    /\ Len(add_paths(Cur, paths).playlist) <= MaxPlaylist
    /\ Do(Op("add", <<>>), add_paths(Cur, paths))

\* the user clicks row r of the listbox
SelectRow(r) == Do(Op("select", <<>>), [Cur EXCEPT !.sel = Some(r)])

RemoveSelected == Do(Op("remove", <<>>), remove_selected(Cur))

ClearPlaylist == Do(Op("clear", <<>>), clear_playlist(Cur))

SavePlaylist(how) == Do(Op("save", <<how>>), save_playlist(Cur, how))

LoadPlaylist ==
    /\ Len(load_playlist(Cur).playlist) <= MaxPlaylist
    /\ Do(Op("load", <<>>), load_playlist(Cur))

\* another program rewrites the playlist file
ExternalWrite(c) == c # file /\ Do(Op("write", <<>>), [Cur EXCEPT !.file = c])

\* the text of the search entry changes (a key press in the entry, or a
\* paste with the mouse): search_var follows it and no handler of the
\* player runs, so the listbox keeps the rows it had
EditSearch(q) == q # query /\ Do(Op("edit", <<>>), [Cur EXCEPT !.query = q])

\* a key is released in the search entry: _filter_playlist runs on the text
\* the entry holds by then
FilterPlaylist == Do(Op("filter", <<>>), filter_playlist(Cur))

PlaySelected(ok) == Do(Op("play_selected", <<>>), play_selected(Cur, ok))

PlayPause(ok) == Do(Op("play_pause", <<>>), play_pause(Cur, ok))

StopSong == Do(Op("stop", <<>>), stop_song(Cur))

NextSong(rnd, ok) ==
    InRange /\ Do(Op("next", <<>>), next_song(Cur, rnd, ok))

PrevSong(ok) == Do(Op("prev", <<>>), prev_song(Cur, ok))

OnSeek(val) == Do(Op("seek", <<val>>), on_seek(Cur, val))

ToggleShuffle == Do(Op("shuffle", <<>>), toggle_shuffle(Cur))

CycleRepeat == Do(Op("repeat", <<>>), cycle_repeat(Cur))

\* the pending timer callback runs
UpdateLoop(tpos, rnd, ok) ==
    /\ timer
    /\ InRange
    /\ Do(Op("tick", <<tpos>>), update_loop(Cur, tpos, rnd, ok))

\* the audio device goes away or comes back
MixerChange == Do(Op("mixer", <<>>), [Cur EXCEPT !.mixer_up = ~@])

Next ==
    \/ \E paths \in Batches : AddFiles(paths)
    \/ \E r \in 0..(Len(listbox) - 1) : SelectRow(r)
    \/ RemoveSelected
    \/ ClearPlaylist
    \/ \E how \in {"ok", "open", "write"} : SavePlaylist(how)
    \/ LoadPlaylist
    \/ \E q \in Queries : EditSearch(q)
    \/ FilterPlaylist
    \/ \E ok \in BOOLEAN : PlaySelected(ok)
    \/ \E ok \in BOOLEAN : PlayPause(ok)
    \/ StopSong
    \/ \E rnd \in Rnd, ok \in BOOLEAN : NextSong(rnd, ok)
    \/ \E ok \in BOOLEAN : PrevSong(ok)
    \/ \E val \in SeekVals : OnSeek(val)
    \/ ToggleShuffle
    \/ CycleRepeat
    \/ \E tpos \in TransportPos, rnd \in Rnd, ok \in BOOLEAN :
           UpdateLoop(tpos, rnd, ok)

Spec == Init /\ [][Next]_vars

(***************************************************************************)
(* Narrower specifications.                                                *)
(***************************************************************************)
\* only add and remove (with the click that selects the row to remove)
NextAddRemove ==
    \/ \E paths \in Batches : AddFiles(paths)
    \/ \E r \in 0..(Len(listbox) - 1) : SelectRow(r)
    \/ RemoveSelected

SpecAddRemove == Init /\ [][NextAddRemove]_vars

\* the playlist panel with the playlist file, and play/pause as the only
\* playback control
NextPersist ==
    \/ \E paths \in Batches : AddFiles(paths)
    \/ \E r \in 0..(Len(listbox) - 1) : SelectRow(r)
    \/ RemoveSelected
    \/ ClearPlaylist
    \/ \E how \in {"ok", "open", "write"} : SavePlaylist(how)
    \/ LoadPlaylist
    \/ \E c \in FileContents : ExternalWrite(c)
    \/ \E ok \in BOOLEAN : PlayPause(ok)

SpecPersist == Init /\ [][NextPersist]_vars

\* the player without the search entry and without the playlist file (Save
\* List, Load List, Control-s, Control-o): the listbox always shows the
\* whole playlist and the file stays missing.  save_playlist writes no field
\* of the controller and load_playlist is clear_playlist followed by
\* _add_paths, so the controller states are those of the player with the
\* file; the steps left out are the recorded saves and loads, which
\* SpecPersist and SpecRoundTrip have
NextPlayer ==
    \/ \E paths \in Batches : AddFiles(paths)
    \/ \E r \in 0..(Len(listbox) - 1) : SelectRow(r)
    \/ RemoveSelected
    \/ ClearPlaylist
    \/ \E ok \in BOOLEAN : PlaySelected(ok)
    \/ \E ok \in BOOLEAN : PlayPause(ok)
    \/ StopSong
    \/ \E rnd \in Rnd, ok \in BOOLEAN : NextSong(rnd, ok)
    \/ \E ok \in BOOLEAN : PrevSong(ok)
    \/ \E val \in SeekVals : OnSeek(val)
    \/ ToggleShuffle
    \/ CycleRepeat
    \/ \E tpos \in TransportPos, rnd \in Rnd, ok \in BOOLEAN :
           UpdateLoop(tpos, rnd, ok)

SpecPlayer == Init /\ [][NextPlayer]_vars

\* the player without the seek slider, the timer and the playlist file
\* (Save List, Load List, Control-s, Control-o): no position is pending or
\* displayed and the file stays missing
NextPanel ==
    \/ \E paths \in Batches : AddFiles(paths)
    \/ \E r \in 0..(Len(listbox) - 1) : SelectRow(r)
    \/ RemoveSelected
    \/ ClearPlaylist
    \/ \E q \in Queries : EditSearch(q)
    \/ FilterPlaylist
    \/ \E ok \in BOOLEAN : PlaySelected(ok)
    \/ \E ok \in BOOLEAN : PlayPause(ok)
    \/ StopSong
    \/ \E rnd \in Rnd, ok \in BOOLEAN : NextSong(rnd, ok)
    \/ \E ok \in BOOLEAN : PrevSong(ok)
    \/ ToggleShuffle
    \/ CycleRepeat

SpecPanel == Init /\ [][NextPanel]_vars

\* the player on an audio device that can go away and come back: the
\* handlers that call the transport without choosing another track
NextFaulty ==
    \/ \E paths \in Batches : AddFiles(paths)
    \/ \E r \in 0..(Len(listbox) - 1) : SelectRow(r)
    \/ RemoveSelected
    \/ ClearPlaylist
    \/ \E ok \in BOOLEAN : PlayPause(ok)
    \/ StopSong
    \/ \E val \in SeekVals : OnSeek(val)
    \/ CycleRepeat
    \/ \E tpos \in TransportPos, rnd \in Rnd, ok \in BOOLEAN :
           UpdateLoop(tpos, rnd, ok)
    \/ MixerChange

SpecFaulty == Init /\ [][NextFaulty]_vars

\* files whose names hold the characters json.dump escapes, and a pair
\* that reads as an escape
PathQ == <<"m", "/", "\"", "\\">>
PathR == <<"m", "/", "\\", "/">>

\* the playlists, without duplicates, the user can have built from the
\* files, PathQ and PathR
SavedPlaylists ==
    {q \in UNION {[1..k -> Paths \cup {PathQ, PathR}] : k \in 0..MaxPlaylist} :
        \A i, j \in 1..Len(q) : q[i] = q[j] => i = j}

\* saving and loading: the user has added some files; from then on the
\* playlist shrinks by remove, is saved and is loaded, and play/pause runs.
\* No other program writes the file.
InitRoundTrip == \E q \in SavedPlaylists : StartIn(add_paths(Fresh, q))

NextRoundTrip ==
    \/ \E r \in 0..(Len(listbox) - 1) : SelectRow(r)
    \/ RemoveSelected
    \/ \E how \in {"ok", "open", "write"} : SavePlaylist(how)
    \/ LoadPlaylist
    \/ \E ok \in BOOLEAN : PlayPause(ok)

SpecRoundTrip == InitRoundTrip /\ [][NextRoundTrip]_vars

\* playlists without duplicates
Playlists ==
    {q \in UNION {[1..k -> Paths] : k \in 1..MaxPlaylist} :
        \A i, j \in 1..Len(q) : q[i] = q[j] => i = j}

\* unattended playback: the user has added some files, chosen the modes and
\* started track 0; from then on only the timer runs.  Every tick is
\* recorded and the run goes on.
InitAuto ==
    \E q \in Playlists, sh \in BOOLEAN, rp \in RepeatModes :
        StartIn(start_playback(
                    [add_paths(Fresh, q) EXCEPT !.shuffle = sh, !.repeat = rp],
                    TRUE))

AutoTick(tpos, rnd) ==
    /\ timer
    /\ Step(Op("tick", <<tpos>>), update_loop(Cur, tpos, rnd, TRUE), TRUE)

NextAuto == \E tpos \in TransportPos, rnd \in Rnd : AutoTick(tpos, rnd)

\* a tick that finds the transport within the guard of the known duration;
\* the transport plays on between ticks and the 250 ms period is shorter
\* than the guard, so such a tick comes while the track plays
TickAtEnd ==
    \E tpos \in TransportPos, rnd \in Rnd :
        /\ playing /\ ~paused
        /\ length > 0 /\ tpos >= length - Guard
        /\ AutoTick(tpos, rnd)

SpecAuto == InitAuto /\ [][NextAuto]_vars /\ WF_vars(TickAtEnd)

(***************************************************************************)
(* Vocabulary of the properties.                                           *)
(***************************************************************************)
\* o is absent or an index into a list of n elements
ValidIndex(o, n) == IF o = None THEN TRUE ELSE 0 <= Val(o) /\ Val(o) < n

\* the recorded step is handler h
Ran(h) == last.op = h

\* the recorded handler made call f with argument a
Called(f, a) == \E k \in 1..Len(calls) : calls[k] = Call(f, a)

\* the recorded handler made some call f
CalledAny(f) == \E k \in 1..Len(calls) : calls[k].f = f

\* the controller states of the spec, before and after the recorded step
WasPlaying == pre.playing /\ ~pre.paused
WasPaused  == pre.playing /\ pre.paused
WasStopped == ~pre.playing
IsPlaying  == playing /\ ~paused
IsStopped  == ~playing /\ ~paused

(***************************************************************************)
(* C1.  In every reachable state, under any interleaving of the user       *)
(* operations and refresh ticks, currentIndex is absent or a valid index   *)
(* into the playlist.  (Refuted: next_song leaves idx = len(playlist)      *)
(* when it stops at the end of a non-repeating playlist.)                  *)
(***************************************************************************)
C1_IndexAlwaysValid ==
    IF idx = None THEN TRUE ELSE Val(idx) >= 0 /\ Val(idx) < Len(playlist)

(***************************************************************************)
(* C2.  After any finite sequence of add and remove operations from the    *)
(* initial state, currentIndex is absent or a valid index into the         *)
(* playlist.                                                               *)
(***************************************************************************)
C2_AddRemoveNoDangling == ValidIndex(idx, Len(playlist))

\* the only track, which is the current one, has just been removed
C2_Witness ==
    /\ Ran("remove")
    /\ pre.idx = Some(0) /\ pre.sel = Some(0) /\ Len(pre.playlist) = 1
    /\ playlist = <<>> /\ idx = None

(***************************************************************************)
(* C5.  If load_playlist fails or rejects the file content (unreadable,    *)
(* not JSON, or JSON that is no array), an error is shown and the playlist *)
(* is what it was before the load.  (Refuted: a JSON scalar is only        *)
(* rejected after clear_playlist has run.)                                 *)
(***************************************************************************)
C5_FailedLoadKeepsPlaylist ==
    (/\ Ran("load")
     /\ file.kind = "text"
     /\ json_load(file.data).kind \in {"invalid", "scalar"})
        => (CalledAny("showerror") /\ playlist = pre.playlist)

(***************************************************************************)
(* C10.  Whenever remove is applied to the entry whose playlist index is   *)
(* currentIndex, whether Playing, Paused or Stopped, the result is         *)
(* playing = false, paused = false and currentIndex absent.                *)
(***************************************************************************)
C10_RemoveCurrentStops ==
    (Ran("remove") /\ pre.sel # None /\ pre.idx = pre.sel)
        => (~playing /\ ~paused /\ idx = None)

\* the current track was removed while Paused
C10_Witness ==
    /\ Ran("remove")
    /\ pre.sel # None /\ pre.idx = pre.sel
    /\ WasPaused
    /\ Len(playlist) = Len(pre.playlist) - 1
    /\ IsStopped /\ idx = None

\* the recorded handler loaded track i of the playlist and played it from 0
StartedTrack(i) ==
    calls = <<Call("load", Py(playlist, i)), Call("play", <<0>>)>>

\* the position the recorded tick worked with
ObservedPos ==
    LET raw == IF pre.manual # None THEN Val(pre.manual) ELSE last.arg[1]
    IN IF raw < 0 THEN 0 ELSE raw

\* the target f*D of the recorded seek, D being the duration it found
SeekTarget == (last.arg[1] * pre.length) \div 100

\* a seek while Playing with known duration leaves f*D pending
SeekLeavesTarget ==
    (Ran("seek") /\ WasPlaying /\ pre.length > 0)
        => manual = Some(SeekTarget)

\* the recorded step is a tick that found Playing, a known duration and a
\* pending seek position
TickAfterSeek ==
    Ran("tick") /\ WasPlaying /\ pre.length > 0 /\ pre.manual # None

\* the recorded tick only displayed position ms
Displayed(ms) ==
    /\ curr_lbl = format_time(ms)
    /\ calls = <<>>
    /\ idx = pre.idx
    /\ IsPlaying

(***************************************************************************)
(* C3.  A seek to fraction f while Playing a track of known duration D     *)
(* makes the very next tick use and display f*D, whatever the transport    *)
(* reports, for every f in [0,1], also when f*D is within 0.4 s of D.      *)
(* (Refuted for targets within the guard: the tick then takes the          *)
(* end-of-track branch.)                                                   *)
(***************************************************************************)
C3_SeekShownOnNextTick ==
    /\ SeekLeavesTarget
    /\ TickAfterSeek => (manual = None /\ Displayed(Val(pre.manual)))

(***************************************************************************)
(* C3 as amended.  The next tick uses f*D whatever the transport reports   *)
(* and consumes it; it displays f*D when f*D is more than 0.4 s short of   *)
(* the known duration, and otherwise takes the end-of-track branch         *)
(* (restart under repeat=one, else the next-track policy).                 *)
(***************************************************************************)
C3_SeekUsedOnNextTick ==
    /\ SeekLeavesTarget
    /\ TickAfterSeek =>
          /\ manual = None
          /\ IF Val(pre.manual) < pre.length - 400
             THEN Displayed(Val(pre.manual))
             ELSE IF repeat = "one"
             THEN calls = <<Call("play", <<0>>)>> /\ idx = pre.idx
             ELSE CalledAny("stop") \/ CalledAny("load")

\* a tick showed the pending 1.0 s of a 2.0 s track although the transport
\* reported 1.7 s
C3_Witness ==
    /\ TickAfterSeek
    /\ pre.manual = Some(1000) /\ pre.length = 2000
    /\ last.arg = <<1700>>
    /\ curr_lbl = <<0, 1>> /\ manual = None

(***************************************************************************)
(* C4.  If the transport load fails while a track is being started (by     *)
(* play/pause, play selected, next, prev or a tick's end-of-track          *)
(* advance), the error is shown and currentIndex, playing, paused and      *)
(* knownDuration keep their values.  (Refuted: the handlers assign idx     *)
(* before they try to load.)                                               *)
(***************************************************************************)
C4_FailedLoadChangesNothing ==
    (/\ last.op \in {"play_pause", "play_selected", "next", "prev", "tick"}
     /\ Called("showerror", <<"L">>))
        => /\ idx = pre.idx
           /\ playing = pre.playing
           /\ paused = pre.paused
           /\ length = pre.length

\* next_song was entered on the last index of a non-empty playlist
NextOnLast ==
    /\ Ran("next")
    /\ pre.playlist # <<>>
    /\ pre.idx = Some(Len(pre.playlist) - 1)

(***************************************************************************)
(* C6.  On the last index, next() under repeat=all sets currentIndex to 0  *)
(* and starts track 0; under repeat=off or one it stops playback and       *)
(* starts no track.  (Refuted with shuffle on, and when track 0 does not   *)
(* load.)                                                                  *)
(***************************************************************************)
C6_NextOnLastIndex ==
    NextOnLast =>
        IF repeat = "all"
        THEN idx = Some(0) /\ IsPlaying /\ StartedTrack(0)
        ELSE IsStopped /\ ~CalledAny("load") /\ ~CalledAny("play")

(***************************************************************************)
(* C6 as amended.  With shuffle off, on the last index: next() under       *)
(* repeat=all sets currentIndex to 0, tries to load track 0 and, when the  *)
(* transport loads it, plays it; under repeat=off or one it stops          *)
(* playback and starts no track.                                           *)
(***************************************************************************)
C6_NextOnLastIndexNoShuffle ==
    (NextOnLast /\ ~shuffle) =>
        IF repeat = "all"
        THEN /\ idx = Some(0)
             /\ Called("load", Py(playlist, 0))
             /\ ~CalledAny("showerror") => (IsPlaying /\ StartedTrack(0))
        ELSE IsStopped /\ ~CalledAny("load") /\ ~CalledAny("play")

\* next wrapped from the second of two tracks to the first
C6_Witness ==
    /\ NextOnLast /\ ~shuffle /\ repeat = "all"
    /\ Len(playlist) = 2 /\ pre.idx = Some(1)
    /\ idx = Some(0) /\ IsPlaying /\ StartedTrack(0)

(***************************************************************************)
(* C7.  With a non-empty playlist, currentIndex = 0 and a transport that   *)
(* loads the track: prev() under repeat=off or one leaves currentIndex at  *)
(* 0, under repeat=all sets it to len(playlist)-1, and ends in Playing in  *)
(* both cases, never in Stopped.                                           *)
(***************************************************************************)
C7_PrevOnFirstIndex ==
    (/\ Ran("prev")
     /\ pre.playlist # <<>>
     /\ pre.idx = Some(0)
     /\ ~CalledAny("showerror"))
        => /\ idx = IF repeat = "all" THEN Some(Len(playlist) - 1) ELSE Some(0)
           /\ IsPlaying
           /\ StartedTrack(Val(idx))

\* prev on the first of two tracks, repeat off, from Stopped: plays track 0
C7_Witness ==
    /\ Ran("prev") /\ repeat = "off"
    /\ Len(playlist) = 2 /\ pre.idx = Some(0) /\ WasStopped
    /\ idx = Some(0) /\ IsPlaying /\ StartedTrack(0)

(***************************************************************************)
(* C9.  A tick in Playing with repeat=one that observes a position within  *)
(* 0.4 s of the known positive duration re-issues play from offset 0 for   *)
(* the same track, leaves currentIndex unchanged, stays Playing and does   *)
(* not run the next-track policy.                                          *)
(***************************************************************************)
C9_RepeatOneRestarts ==
    (/\ Ran("tick")
     /\ WasPlaying
     /\ repeat = "one"
     /\ pre.length > 0
     /\ ObservedPos >= pre.length - 400)
        => /\ calls = <<Call("play", <<0>>)>>
           /\ idx = pre.idx
           /\ playlist = pre.playlist
           /\ IsPlaying

\* the transport reported D - 0.3 s on a 2.0 s track under repeat=one
C9_Witness ==
    /\ Ran("tick") /\ WasPlaying /\ repeat = "one"
    /\ pre.length = 2000 /\ pre.manual = None /\ last.arg = <<1700>>
    /\ calls = <<Call("play", <<0>>)>>
    /\ idx = pre.idx /\ IsPlaying

\* shuffle off, repeat off and every track of known positive duration
Unattended ==
    /\ ~shuffle
    /\ repeat = "off"
    /\ \A k \in 1..Len(playlist) : get_length_fallback(playlist[k]) > 0

\* what a recorded tick does during unattended playback
TickInOrder ==
    (Unattended /\ Ran("tick") /\ WasPlaying) =>
        IF ObservedPos >= pre.length - 400
        THEN /\ idx = Some(Val(pre.idx) + 1)
             /\ IF Val(idx) < Len(playlist)
                THEN /\ IsPlaying
                     /\ StartedTrack(Val(idx))
                     /\ length = get_length_fallback(Py(playlist, Val(idx)))
                ELSE IsStopped /\ ~CalledAny("load") /\ ~CalledAny("play")
        ELSE idx = pre.idx /\ IsPlaying /\ calls = <<>>

(***************************************************************************)
(* C8.  With shuffle off, repeat off, known positive durations, no load    *)
(* failures and no user commands after playback starts at index 0, each    *)
(* tick that sees the position within 0.4 s of the duration advances       *)
(* currentIndex by exactly one and starts that track, and after the last   *)
(* track the controller eventually is Stopped and stays Stopped.           *)
(***************************************************************************)
C8_PlaysInOrderThenStops ==
    /\ []TickInOrder
    /\ Unattended => <>[]IsStopped

\* the second of two tracks has ended and the controller has stopped
C8_Witness ==
    /\ Unattended /\ Ran("tick") /\ WasPlaying
    /\ Len(playlist) = 2 /\ pre.idx = Some(1)
    /\ idx = Some(2) /\ IsStopped

(***************************************************************************)
(* C11.  In every reachable state, currentIndex is absent if and only if   *)
(* the playlist is empty or no index has ever been selected or assigned;   *)
(* in particular, whenever the playlist is empty currentIndex is absent.   *)
(* (Refuted: after next_song has left idx = len(playlist), removing a      *)
(* track decrements idx instead of unsetting it, also down to an empty     *)
(* playlist; and removing the current track of a longer playlist unsets    *)
(* idx.)                                                                   *)
(***************************************************************************)
C11_IndexAbsentIffEmptyOrNew ==
    /\ playlist = <<>> => idx = None
    /\ (idx = None) <=> (playlist = <<>> \/ ~assigned)

(***************************************************************************)
(* C12.  Round trip: for any reachable playlist P (which has no duplicate  *)
(* paths), save followed by load of the intact file yields a playlist      *)
(* equal to P: the same paths in the same order, the same length.  Stated  *)
(* over the two steps: a save that succeeds leaves the playlist as it was  *)
(* and the file holding its JSON text, and a load that finds the file      *)
(* holding the JSON text of the playlist reports success and leaves the    *)
(* playlist as it was.                                                     *)
(***************************************************************************)
C12_SaveLoadRoundTrip ==
    /\ (Ran("save") /\ last.arg = <<"ok">>)
           => /\ playlist = pre.playlist
              /\ file = FileOf("text", json_dump(playlist))
    /\ (Ran("load") /\ file = FileOf("text", json_dump(pre.playlist)))
           => /\ Called("showinfo", <<"L">>)
              /\ playlist = pre.playlist
              /\ Len(playlist) = Len(pre.playlist)

\* a saved playlist of two files, one with a quote and a backslash in its
\* name, has been loaded back
C12_Witness ==
    /\ Ran("load")
    /\ file = FileOf("text", json_dump(pre.playlist))
    /\ pre.playlist = <<PathQ, PathA>>
    /\ playlist = <<PathQ, PathA>>
    /\ Called("showinfo", <<"L">>)

(***************************************************************************)
(* C13.  In every reachable state, playing = false implies paused = false  *)
(* (the controller is in exactly one of Stopped, Playing, Paused), under   *)
(* any interleaving of user operations and refresh ticks.                  *)
(***************************************************************************)
C13_StoppedIsNotPaused == ~playing => ~paused

\* stop was pressed while Paused
C13_Witness ==
    /\ Ran("stop") /\ WasPaused
    /\ ~playing /\ ~paused

(***************************************************************************)
(* C14.  In every reachable state whose playlist is empty, play_pause()    *)
(* (and likewise next() and prev()) changes no state variable              *)
(* (currentIndex, playing, paused, knownDuration, pendingManualPosition)   *)
(* and issues no transport call.                                           *)
(***************************************************************************)
C14_EmptyPlaylistNoOp ==
    (last.op \in {"play_pause", "next", "prev"} /\ pre.playlist = <<>>)
        => /\ calls = <<>>
           /\ playlist = <<>>
           /\ idx = pre.idx
           /\ playing = pre.playing
           /\ paused = pre.paused
           /\ length = pre.length
           /\ manual = pre.manual

\* next was pressed on a playlist emptied by remove, idx still holding an
\* index
C14_Witness ==
    /\ Ran("next")
    /\ pre.playlist = <<>> /\ pre.idx = Some(0)
    /\ idx = Some(0) /\ calls = <<>>

(***************************************************************************)
(* C15.  A seek request issued while the controller is not Playing, that   *)
(* is in Stopped or in Paused, is a no-op: it issues no transport call,    *)
(* leaves pendingManualPosition absent and changes no other state.         *)
(* (Refuted: _on_seek tests only self.playing, which is true in Paused,    *)
(* so a seek in Paused restarts the transport at the offset and leaves a   *)
(* pending position while paused stays true.)                              *)
(***************************************************************************)
C15_SeekOnlyWhilePlaying ==
    (Ran("seek") /\ ~WasPlaying)
        => /\ calls = <<>>
           /\ manual = None
           /\ idx = pre.idx
           /\ playing = pre.playing
           /\ paused = pre.paused
           /\ length = pre.length

(***************************************************************************)
(* C16.  stop, from Playing or Paused, ends in Stopped with the displayed  *)
(* position reset to zero and pendingManualPosition absent (so that a      *)
(* seek followed by stop and a new play cannot hand the seek target to the *)
(* first tick of the new playback).  (Refuted: stop_song never touches     *)
(* _manual_seek_pos.)                                                      *)
(***************************************************************************)
C16_StopClearsPendingSeek ==
    (Ran("stop") /\ pre.playing)
        => /\ IsStopped
           /\ curr_lbl = <<0, 0>>
           /\ manual = None

\* the recorded handler let a pygame.error out that call f had raised
LetOut(f) ==
    \E k \in 2..Len(calls) :
        /\ calls[k] = Call("raise", <<"P">>)
        /\ calls[k - 1].f = f
        /\ k = Len(calls)

(***************************************************************************)
(* C17.  If a transport pause, unpause, stop or seek (play at an offset)   *)
(* call fails, the failure does not propagate out of the controller        *)
(* operation and the operation still completes its state updates: stop     *)
(* ends with playing = false and paused = false, removing the current      *)
(* track and clear end Stopped with currentIndex absent, and a tick that   *)
(* restarts the track is followed by the next scheduled tick.  (Refuted:   *)
(* only the play call of _on_seek sits in a try block.)                    *)
(***************************************************************************)
C17_TransportFailuresSwallowed ==
    /\ ~LetOut("pause") /\ ~LetOut("unpause") /\ ~LetOut("stop")
    /\ Ran("seek") => ~LetOut("play")
    /\ Ran("stop") => (~playing /\ ~paused)
    /\ (Ran("remove") /\ pre.sel # None /\ pre.idx = pre.sel)
           => (IsStopped /\ idx = None)
    /\ Ran("clear") => (IsStopped /\ idx = None)
    /\ (Ran("tick") /\ WasPlaying /\ repeat = "one" /\ CalledAny("play"))
           => timer

(***************************************************************************)
(* C18.  With shuffle enabled and a non-empty playlist, both next() and    *)
(* prev() choose the new currentIndex from the whole range                 *)
(* [0, len(playlist)): every index of the range is a possible outcome,     *)
(* whatever the direction, the previous currentIndex and the repeat mode.  *)
(* Stated of the state the handlers would be called in: for every index j  *)
(* some draw of the random source makes the handler leave idx = j.         *)
(* (Refuted: prev_song never reads self.shuffle.)                          *)
(***************************************************************************)
C18_ShuffleBothDirections ==
    (shuffle /\ playlist # <<>>) =>
        \A j \in 0..(Len(playlist) - 1) :
            /\ \E rnd \in Rnd : next_song(Cur, rnd, TRUE).idx = Some(j)
            /\ \E rnd \in Rnd : prev_song(Cur, TRUE).idx = Some(j)

\* the filtered view of the playlist the recorded handler found: the
\* original indices of the tracks whose name contains the query
ViewIndices ==
    LET q == lower(strip(pre.query))
    IN SelectSeq([i \in 1..Len(pre.playlist) |-> i - 1],
                 LAMBDA i : \/ q = <<>>
                            \/ Contains(q, lower(basename(Py(pre.playlist, i)))))

\* the recorded handler found the listbox showing the filtered view, and the
\* view leaving some track out
FilterActive ==
    /\ Len(ViewIndices) < Len(pre.playlist)
    /\ pre.listbox =
           [k \in 1..Len(ViewIndices) |->
                basename(Py(pre.playlist, ViewIndices[k]))]

(***************************************************************************)
(* C19.  When a search filter is active (the displayed list is a strict    *)
(* subsequence of the playlist), remove-selected removes from the playlist *)
(* exactly the track shown in the selected row, the entry at that row's    *)
(* original playlist index, and adjusts currentIndex (unset if equal,      *)
(* decrement if smaller) against that original index; filtering itself     *)
(* never changes the playlist or currentIndex.  (Refuted: remove_selected  *)
(* pops the playlist at the row number.)                                   *)
(***************************************************************************)
C19_RemoveUnderFilter ==
    /\ (Ran("remove") /\ pre.sel # None /\ FilterActive) =>
           LET o == ViewIndices[Val(pre.sel) + 1]
           IN /\ playlist = Pop(pre.playlist, o)
              /\ idx = IF pre.idx = Some(o) THEN None
                       ELSE IF pre.idx # None /\ o < Val(pre.idx)
                       THEN Some(Val(pre.idx) - 1)
                       ELSE pre.idx
    /\ Ran("filter") => (playlist = pre.playlist /\ idx = pre.idx)

(***************************************************************************)
(* C20.  A pending manual seek position recorded for one track is never    *)
(* consumed by a tick as the position of a different track or of a fresh   *)
(* playback: every operation that starts a track (play selected, next,     *)
(* prev, play/pause from Stopped, end-of-track advance) leaves             *)
(* pendingManualPosition absent.  (Refuted: start_playback never touches   *)
(* _manual_seek_pos; only a tick consumes it.)                             *)
(***************************************************************************)
C20_TrackStartDropsPendingSeek ==
    (/\ last.op \in {"play_selected", "next", "prev", "play_pause", "tick"}
     /\ CalledAny("load")
     /\ Called("play", <<0>>))
        => manual = None

(***************************************************************************)
(* C21.  Whenever the playlist is non-empty, the controller is Stopped and *)
(* the transport can load every track, play_pause() results in Playing on  *)
(* a valid track of the playlist, in every reachable Stopped state,        *)
(* including after next() or an end-of-track advance stopped playback at   *)
(* the end of a non-repeating playlist.  (Refuted: next_song leaves        *)
(* idx = len(playlist) there, and _load_track then returns False without   *)
(* a word.)                                                                *)
(***************************************************************************)
C21_PlayFromStoppedPlays ==
    (/\ Ran("play_pause")
     /\ pre.playlist # <<>>
     /\ WasStopped
     /\ ~CalledAny("showerror"))
        => /\ IsPlaying
           /\ idx # None
           /\ ValidIndex(idx, Len(playlist))

(***************************************************************************)
(* C22.  prev() completes without raising an error in every reachable      *)
(* state with a non-empty playlist and for every repeat mode, including    *)
(* states where currentIndex is absent (after the current track was        *)
(* removed), and afterwards currentIndex is a valid index into the         *)
(* playlist.  (Refuted: under repeat=all an absent idx makes               *)
(* "self.idx - 1" raise TypeError, and an idx left past the end by         *)
(* next_song stays past the end.)                                          *)
(***************************************************************************)
C22_PrevNeverRaises ==
    (Ran("prev") /\ pre.playlist # <<>>)
        => /\ ~CalledAny("raise")
           /\ idx # None
           /\ ValidIndex(idx, Len(playlist))

====
